---- MODULE Spec2Model ----
(***************************************************************************)
(* Model of src/src/types/IProduct.ts: the EventDispatcher bus, the        *)
(* BaseView life cycle, and the CatalogController / OrderController that   *)
(* subscribe to the bus.  Dispatch is synchronous and re-entrant, so the   *)
(* JavaScript call stack of nested dispatch() calls is explicit: one frame *)
(* per running forEach.                                                    *)
(***************************************************************************)
EXTENDS Naturals, Sequences, FiniteSets, TLC

VARIABLES
    eventListeners,   \* EventDispatcher.eventListeners: event -> handler list (partial)
    stack,            \* call stack of running dispatch() calls, top = last
    basket,           \* CatalogController.basket, by value (the sharing of the array
                      \* object with the basket:update payloads is not represented)
    orderDetails,     \* OrderController.orderDetails
    contactInfo,      \* OrderController.contactInfo
    finalOrder,       \* the const finalOrder of the last submitOrder call, Null when
                      \* that call formed none
    views,            \* the BaseView instances, by kind
    trace,            \* history: dispatch() calls and handler invocations of the
                      \* current top-level dispatch, in time order
    thrown,           \* history: the last top-level dispatch ended by an exception
    addCount,         \* history: product:add dispatches per product id since Init
    ui,               \* the modal element's class and content, and the history of
                      \* the user's gestures
    held,             \* the basket:update payload a subscriber kept, Null when none
    initSeen,         \* history: order:init has been dispatched since Init
    onlyAdds,         \* history: since Init no product:remove was dispatched, and no
                      \* basket:update by anyone but addToBasket
    lastSub,          \* history: the subscribe call made last, when nothing followed it
    lastUnsub,        \* history: the unsubscribe call made last, when no subscribe
                      \* call followed it; kept over a dispatch when it undid the
                      \* subscribe call made just before it
    subsLeft,         \* remaining subscribe calls of the environment
    dispLeft          \* remaining top-level dispatch calls of the environment

vars == <<eventListeners, stack, basket, orderDetails, contactInfo, finalOrder, views,
          trace, thrown, addCount, initSeen, onlyAdds, lastSub, lastUnsub, subsLeft,
          dispLeft, ui, held>>

----------------------------------------------------------------------------
(* Bounds of the model *)

MaxSubs == 3          \* subscribe calls made by the environment (bus runs)
MaxDispatch == 4      \* top-level dispatch calls (controller runs)
MaxUpdates == 2       \* updateState calls per view

----------------------------------------------------------------------------
(* Data: AppEventMap and the payload types *)

AppEventMap ==
    {"product:add", "product:remove", "product:view", "basket:update",
     "order:init", "order:submit", "modal:close"}

\* IProduct, reduced to the fields the code reads: id (identity) and title.
\* Two products share id p1, two share title "A".
IProduct ==
    {[id |-> "p1", title |-> "A"], [id |-> "p1", title |-> "B"],
     [id |-> "p2", title |-> "A"]}

ProductIds == {p.id : p \in IProduct}

P1 == [id |-> "p1", title |-> "A"]
P1b == [id |-> "p1", title |-> "B"]
P2 == [id |-> "p2", title |-> "A"]

\* IProductCard: a basket line.
IProductCard(p, n) == [product |-> p, itemCount |-> n]

IOrderDetails == {[payment |-> "card", address |-> ""],
                  [payment |-> "cash", address |-> "Main St"]}

IContactInfo == {[email |-> "a@b.com", phone |-> "123"],
                 [email |-> "c@d.com", phone |-> "456"]}

Null == [null |-> TRUE]

\* Payloads are tagged by the type AppEventMap gives the event.
ProductPayload(p) == [kind |-> "product", product |-> p]
ItemsPayload(items) == [kind |-> "items", items |-> items]
DetailsPayload(d) == [kind |-> "details", details |-> d]
ContactPayload(c) == [kind |-> "contact", contact |-> c]
VoidPayload == [kind |-> "void"]

\* Handlers are named: the six the controllers subscribe (addToBasket,
\* removeFromBasket, updateBasket, initOrder, setOrderDetails, submitOrder) and
\* those of other subscribers: hLog1 and hLog2 return at once, hView dispatches
\* product:view, hClose dispatches modal:close, hThrow throws.

\* Events a handler may be subscribed to by the environment.  A handler is never
\* subscribed to an event its own dispatch leads back to (no cyclic chains).
Rank(e) ==
    CASE e \in {"product:add", "product:remove"} -> 3
      [] e = "basket:update" -> 2
      [] e = "product:view" -> 1
      [] e = "modal:close" -> 0
      [] OTHER -> 3

MaySubscribe(e, h) ==
    CASE h = "hView" -> Rank(e) > 1
      [] h = "hClose" -> Rank(e) > 0
      [] OTHER -> TRUE

----------------------------------------------------------------------------
(* EventDispatcher *)

Listeners(reg, e) == IF e \in DOMAIN reg THEN reg[e] ELSE <<>>

\* subscribe: create the list when absent, then push.
subscribe(reg, e, h) ==
    [x \in DOMAIN reg \cup {e} |-> IF x = e THEN Append(Listeners(reg, e), h) ELSE reg[x]]

\* unsubscribe that removes the first registration of the handler only.
unsubscribe_First(reg, e, h) ==
    IF e \in DOMAIN reg /\ \E i \in 1..Len(reg[e]) : reg[e][i] = h
    THEN LET first == CHOOSE i \in 1..Len(reg[e]) :
                          reg[e][i] = h /\ \A j \in 1..(i - 1) : reg[e][j] # h
         IN [reg EXCEPT ![e] = SubSeq(reg[e], 1, first - 1)
                                 \o SubSeq(reg[e], first + 1, Len(reg[e]))]
    ELSE reg

\* unsubscribe that filters the handler out of the lists of all events.
unsubscribe_AllEvents(reg, e, h) ==
    IF e \in DOMAIN reg
    THEN [x \in DOMAIN reg |-> SelectSeq(reg[x], LAMBDA cb : cb # h)]
    ELSE reg

\* unsubscribe: when the event has a list, replace it by the filtered list.
unsubscribe(reg, e, h) ==
    IF e \in DOMAIN reg
    THEN [reg EXCEPT ![e] = SelectSeq(reg[e], LAMBDA cb : cb # h)]
    ELSE reg

\* The frame of one dispatch(): forEach over the listener array, with the
\* length read once, before the first callback.
\* arr is the array object being iterated; live tells whether it is still
\* the object the registry holds for the event.
Frame(reg, e, payload, did) ==
    [event |-> e, payload |-> payload, arr |-> Listeners(reg, e),
     len |-> Len(Listeners(reg, e)), idx |-> 0, did |-> did,
     live |-> e \in DOMAIN reg]

\* A forEach that reads the array's length before every callback.
ForEachLength_Live(f) == Len(f.arr)

\* forEach visits the indices below the length it read when it began.
ForEachLength(f) == f.len

\* A nested dispatch() that is queued behind the running ones.
PushFrame_Queued(stk, f) == <<f>> \o stk

\* A nested dispatch() is a call: its frame goes on top of the caller's.
PushFrame(stk, f) == Append(stk, f)

Top(stk) == stk[Len(stk)]
Pop(stk) == SubSeq(stk, 1, Len(stk) - 1)

\* forEach running from the last element to the first.
NextCallback_Reverse(f) == f.arr[f.len - f.idx]

\* forEach has a callback left to invoke.
HasNext(f) == f.idx < ForEachLength(f)

\* forEach: the callback invoked next is the element at the running index.
NextCallback(f) == f.arr[f.idx + 1]

\* An exception that ends the innermost dispatch() only.
Unwind_InnermostOnly(stk) == SubSeq(stk, 1, Len(stk) - 1)

\* An exception thrown by a callback is caught nowhere: every forEach and
\* every dispatch() on the call stack is abandoned.
Unwind(stk) == <<>>

----------------------------------------------------------------------------
(* CatalogController *)

HasLine(b, id) == \E i \in 1..Len(b) : b[i].product.id = id

\* Array.prototype.find: the first line with the product's id
FindIndex(b, id) == CHOOSE i \in 1..Len(b) :
                        /\ b[i].product.id = id
                        /\ \A j \in 1..(i - 1) : b[j].product.id # id

\* addToBasket without the search for an existing line.
addToBasket_NoFind(b, product) == Append(b, IProductCard(product, 1))

addToBasket(b, product) ==
    IF HasLine(b, product.id)
    THEN [b EXCEPT ![FindIndex(b, product.id)].itemCount = @ + 1]
    ELSE Append(b, IProductCard(product, 1))

\* removeFromBasket that takes one item off the line instead of dropping it.
removeFromBasket_Decrement(b, product) ==
    LET dec == [i \in 1..Len(b) |->
                  IF b[i].product.id = product.id
                  THEN [b[i] EXCEPT !.itemCount = @ - 1] ELSE b[i]]
    IN SelectSeq(dec, LAMBDA item : item.itemCount > 0)

removeFromBasket(b, product) ==
    SelectSeq(b, LAMBDA item : item.product.id # product.id)

updateBasket(b, items) == items

\* The dispatch both handlers end with: basket:update with this.basket.
\* updateBasket followed by a dispatch of the list it received.
onBasketUpdate_Republish(b, items) ==
    [basket |-> items,
     nested |-> <<[event |-> "basket:update", payload |-> ItemsPayload(items)]>>]

\* The basket:update subscription: updateBasket assigns and returns.
onBasketUpdate(b, items) == [basket |-> updateBasket(b, items), nested |-> <<>>]

Publish(b) == <<[event |-> "basket:update", payload |-> ItemsPayload(b)]>>

\* The handler subscribed to product:add: mutate, then dispatch.
onProductAdd(b, product) ==
    [basket |-> addToBasket(b, product), nested |-> Publish(addToBasket(b, product))]

\* The product:remove handler dispatching before it filters.
onProductRemove_DispatchFirst(b, product) ==
    [basket |-> removeFromBasket(b, product), nested |-> Publish(b)]

\* The handler subscribed to product:remove: filter, then dispatch.
onProductRemove(b, product) ==
    [basket |-> removeFromBasket(b, product),
     nested |-> Publish(removeFromBasket(b, product))]

----------------------------------------------------------------------------
(* OrderController *)

setOrderDetails(od, details) == details

submitOrder(ci, contact) == contact

\* { ...this.orderDetails, ...this.contactInfo }
SpreadBoth(od, ci) ==
    [k \in DOMAIN od \cup DOMAIN ci |-> IF k \in DOMAIN ci THEN ci[k] ELSE od[k]]

\* A candidate that leaves the order details out.
formOrder_ContactOnly(od, ci) ==
    IF od # Null /\ ci # Null THEN ci ELSE Null

\* A candidate formed without looking at the order details.
formOrder_NoGuard(od, ci) ==
    IF od # Null /\ ci # Null THEN SpreadBoth(od, ci) ELSE ci

\* submitOrder after the assignment: the candidate is formed when both
\* fields are set (an object is truthy, null is not).
formOrder(od, ci) ==
    IF od # Null /\ ci # Null THEN SpreadBoth(od, ci) ELSE Null

----------------------------------------------------------------------------
(* BaseView and the concrete views.  An object is a function from its own  *)
(* enumerable keys to values; an array has the keys "0", "1", ... and is   *)
(* marked isArray.                                                          *)

ViewKinds == {"card", "basket", "order", "modal"}

EmptyObject == [k \in {} |-> ""]

Line1 == IProductCard(P1, 1)
Line2 == IProductCard(P2, 2)

\* initialState arguments of the constructors; Omitted is the missing argument.
Omitted == [omitted |-> TRUE]

Value(obj, isArray) == [obj |-> obj, isArray |-> isArray]

InitialStates(v) ==
    CASE v = "card" -> {Value([id |-> "p1", title |-> "A"], FALSE)}
      [] v = "basket" -> {Value([k \in {"0"} |-> Line1], TRUE), Value(EmptyObject, TRUE),
                          Value([k \in {"0", "1"} |-> IF k = "0" THEN Line1 ELSE Line2],
                                TRUE)}
      [] v = "order" -> {Value([email |-> "a@b.com", phone |-> "123"], FALSE)}
      [] OTHER -> {}

\* Partial<T> arguments of updateState.
Partials(v) ==
    CASE v = "card" -> {EmptyObject, [k \in {"title"} |-> "B"],
                        [id |-> "p2", title |-> "A"]}
      [] v = "basket" -> {[k \in {"0"} |-> Line2], [k \in {"1"} |-> Line2]}
      [] v = "order" -> {[k \in {"email"} |-> "c@d.com"], [k \in {"phone"} |-> "456"]}
      [] OTHER -> {EmptyObject}

\* A merge that keeps none of the old fields.
mergeState_Replace(state, newState) == newState

\* { ...state, ...newState }: a plain object with the keys of both, the
\* value of newState where it has the key.
mergeState(state, newState) ==
    [k \in DOMAIN state \cup DOMAIN newState |->
        IF k \in DOMAIN newState THEN newState[k] ELSE state[k]]

\* render() of the concrete views: TRUE when the call throws.  BasketView calls
\* this.state.map, which only an array has; the other renders read fields.
renderThrows(v, val) == v = "basket" /\ ~val.isArray

\* bindEvents() of the concrete views: TRUE when the call throws.  ModalView
\* reads this.closeButtons, a field initialised only after the base
\* constructor has returned.
bindEventsThrows(v) == v = "modal"

NoView ==
    [constructed |-> FALSE, failed |-> FALSE, state |-> Value(EmptyObject, FALSE),
     renders |-> 0, binds |-> 0, rendered |-> Value(EmptyObject, FALSE),
     updates |-> 0, lastPartial |-> EmptyObject,
     bound |-> Value(EmptyObject, FALSE)]

\* new View(container, initialState): state = initialState || {}, then
\* initialize(): render(), bindEvents().  A throw leaves no instance.
construct(v, initial) ==
    LET st == IF initial = Omitted THEN Value(EmptyObject, FALSE) ELSE initial
        renderFailed == renderThrows(v, st)
        bindFailed == ~renderFailed /\ bindEventsThrows(v)
    IN [NoView EXCEPT !.constructed = ~renderFailed /\ ~bindFailed,
                      !.failed = renderFailed \/ bindFailed,
                      !.state = st,
                      !.renders = 1,
                      !.binds = IF renderFailed THEN 0 ELSE 1,
                      !.rendered = st,
                      !.bound = IF renderFailed \/ bindFailed
                                THEN Value(EmptyObject, FALSE) ELSE st]

\* updateState(newState): this.state = {...this.state, ...newState}; this.render()
updateState(view, newState) ==
    LET merged == Value(mergeState(view.state.obj, newState), FALSE)
    IN [view EXCEPT !.state = merged,
                    !.renders = @ + 1,
                    !.rendered = merged,
                    !.updates = @ + 1,
                    !.lastPartial = newState]

\* The index keys of an array, in order.
Keys == <<"0", "1">>

\* The elements of an array value, in index order.
ArrayOf(val) == [i \in 1..Cardinality(DOMAIN val.obj) |-> val.obj[Keys[i]]]

\* this.state.find((item) => item.product.title === productName)
findByTitle(lines, productName) ==
    IF \E i \in 1..Len(lines) : lines[i].product.title = productName
    THEN lines[CHOOSE i \in 1..Len(lines) :
                   /\ lines[i].product.title = productName
                   /\ \A j \in 1..(i - 1) : lines[j].product.title # productName]
    ELSE Null

\* ModalView.openModal(content) with content given: add the class, replace
\* the children of .modal__content.
openModal(m, content) == [active |-> TRUE, content |-> content]

\* ModalView.closeModal(): remove the class.
closeModal(m) == [m EXCEPT !.active = FALSE]

\* The title a card puts into the modal content it builds.
TitleOf(val) == IF "title" \in DOMAIN val.obj THEN val.obj.title ELSE "undefined"

\* The page as the views are constructed: the modal element without the
\* modal_active class and with no content, and no gesture made yet.
NoUI ==
    [modal |-> [active |-> FALSE, content |-> ""],
     requested |-> "", gesture |-> "", clicked |-> Null]

----------------------------------------------------------------------------
(* What one callback does: the new controller state, whether it throws, and  *)
(* the dispatch it makes as its last statement (at most one).                *)

NoDispatch == <<>>

Effect(b, od, ci, nested, throws) ==
    [basket |-> b, orderDetails |-> od, contactInfo |-> ci,
     nested |-> nested, throws |-> throws]

Callback(h, payload) ==
    CASE h = "addToBasket" ->
            LET r == onProductAdd(basket, payload.product)
            IN Effect(r.basket, orderDetails, contactInfo, r.nested, FALSE)
      [] h = "removeFromBasket" ->
            LET r == onProductRemove(basket, payload.product)
            IN Effect(r.basket, orderDetails, contactInfo, r.nested, FALSE)
      [] h = "updateBasket" ->
            LET r == onBasketUpdate(basket, payload.items)
            IN Effect(r.basket, orderDetails, contactInfo, r.nested, FALSE)
      [] h = "initOrder" ->
            Effect(basket, orderDetails, contactInfo, NoDispatch, FALSE)
      [] h = "setOrderDetails" ->
            Effect(basket, setOrderDetails(orderDetails, payload.details), contactInfo,
                   NoDispatch, FALSE)
      [] h = "submitOrder" ->
            Effect(basket, orderDetails, submitOrder(contactInfo, payload.contact),
                   NoDispatch, FALSE)
      [] h = "hView" ->
            Effect(basket, orderDetails, contactInfo,
                   <<[event |-> "product:view", payload |-> ProductPayload(P1)]>>, FALSE)
      [] h = "hClose" ->
            Effect(basket, orderDetails, contactInfo,
                   <<[event |-> "modal:close", payload |-> VoidPayload]>>, FALSE)
      [] h = "hThrow" ->
            Effect(basket, orderDetails, contactInfo, NoDispatch, TRUE)
      [] OTHER ->
            Effect(basket, orderDetails, contactInfo, NoDispatch, FALSE)

\* Handlers that change the registry while a dispatch is running.  hSub
\* subscribes hLog2 to the event it was invoked for, as long as it has
\* subscriptions left to make; hUnsub unsubscribes hLog1 from that event.
Subscribes(h, left) == h = "hSub" /\ left > 0

callbackRegistry(h, e, reg, left) ==
    CASE Subscribes(h, left) -> subscribe(reg, e, "hLog2")
      [] h = "hUnsub" -> unsubscribe(reg, e, "hLog1")
      [] OTHER -> reg

\* The running forEach calls see the registry change through the array they
\* iterate: push appends to that very array, filter leaves it as it is and
\* puts a new array in the registry.
callbackFrames(stk, h, e, left) ==
    [i \in DOMAIN stk |->
        IF stk[i].event # e \/ ~stk[i].live THEN stk[i]
        ELSE CASE Subscribes(h, left) -> [stk[i] EXCEPT !.arr = Append(@, "hLog2")]
               [] h = "hUnsub" -> [stk[i] EXCEPT !.live = FALSE]
               [] OTHER -> stk[i]]

\* The list a subscriber (hKeep) received with basket:update and kept.  The
\* payload is a reference: same tells whether the kept array is the very
\* array the controller holds in this.basket, link[k] is the index in
\* this.basket of the line object at index k of the kept array, 0 when that
\* object is no longer in this.basket.
Keep(items) ==
    [items |-> items, same |-> TRUE, link |-> [k \in 1..Len(items) |-> k]]

\* The kept list as seen through the subscriber's reference after handler h
\* has run on basket b.  nested tells whether the dispatch was made by a
\* controller handler, which passes this.basket itself.
heldAfter(h, payload, b, hd, nested) ==
    CASE h = "hKeep" -> Keep(payload.items)
      [] hd = Null -> Null
      [] h = "addToBasket" ->
            IF HasLine(b, payload.product.id)
            THEN LET j == FindIndex(b, payload.product.id)
                 IN [hd EXCEPT !.items =
                        [k \in 1..Len(hd.items) |->
                            IF hd.link[k] = j
                            THEN [hd.items[k] EXCEPT !.itemCount = @ + 1]
                            ELSE hd.items[k]]]
            ELSE IF hd.same
                 THEN [hd EXCEPT !.items = Append(@, IProductCard(payload.product, 1)),
                                 !.link = Append(@, Len(b) + 1)]
                 ELSE hd
      [] h = "removeFromBasket" ->
            [hd EXCEPT !.same = FALSE,
                       !.link = [k \in 1..Len(hd.items) |->
                                    IF hd.link[k] = 0
                                       \/ b[hd.link[k]].product.id = payload.product.id
                                    THEN 0
                                    ELSE Cardinality({i \in 1..hd.link[k] :
                                            b[i].product.id # payload.product.id})]]
      [] h = "updateBasket" /\ ~nested ->
            [hd EXCEPT !.same = FALSE, !.link = [k \in 1..Len(hd.items) |-> 0]]
      [] OTHER -> hd

----------------------------------------------------------------------------
(* History entries *)

DispatchEntry(e, payload, did, parent, depth, n, ls) ==
    [kind |-> "dispatch", event |-> e, h |-> "", did |-> did, parent |-> parent,
     depth |-> depth, n |-> n, payload |-> payload, listeners |-> ls]

CallEntry(e, h, did, depth) ==
    [kind |-> "call", event |-> e, h |-> h, did |-> did, parent |-> 0,
     depth |-> depth, n |-> 0, payload |-> VoidPayload, listeners |-> <<>>]

----------------------------------------------------------------------------
(* State after construction: new EventDispatcher(), new CatalogController() *)
(* and new OrderController(), the controllers in either order.              *)

CatalogSubscribed(reg) ==
    subscribe(subscribe(subscribe(subscribe(reg,
        "product:add", "addToBasket"),
        "product:remove", "removeFromBasket"),
        "basket:update", "updateBasket"),
        "order:init", "initOrder")

OrderSubscribed(reg) ==
    subscribe(subscribe(reg,
        "order:init", "setOrderDetails"),
        "order:submit", "submitOrder")

EmptyRegistry == [x \in {} |-> <<>>]

Registration(e, h) == [event |-> e, h |-> h]

Constructed ==
    {OrderSubscribed(CatalogSubscribed(EmptyRegistry)),
     CatalogSubscribed(OrderSubscribed(EmptyRegistry))}

\* Subscriptions other components have made by the time the controller runs
\* start, as sequences of subscribe calls.
Setups ==
    {<<>>,
     <<Registration("product:add", "hLog1"), Registration("basket:update", "hThrow")>>,
     <<Registration("product:remove", "hLog1"), Registration("product:remove", "hThrow"),
       Registration("product:remove", "hLog2")>>,
     <<Registration("product:add", "hLog1"), Registration("basket:update", "hView"),
       Registration("basket:update", "hLog2"), Registration("product:view", "hClose"),
       Registration("product:view", "hLog1"), Registration("modal:close", "hLog2"),
       Registration("order:init", "hThrow")>>}

RECURSIVE SubscribeAll(_, _)
SubscribeAll(reg, regs) ==
    IF regs = <<>> THEN reg
    ELSE SubscribeAll(subscribe(reg, regs[1].event, regs[1].h), Tail(regs))

InitCommon ==
    /\ stack = <<>>
    /\ finalOrder = Null
    /\ initSeen = FALSE
    /\ ui = NoUI
    /\ held = Null
    /\ basket = <<>>
    /\ orderDetails = Null
    /\ contactInfo = Null
    /\ views = [v \in ViewKinds |-> NoView]
    /\ trace = <<>>
    /\ thrown = FALSE
    /\ addCount = [id \in ProductIds |-> 0]
    /\ onlyAdds = TRUE
    /\ lastSub = Null
    /\ lastUnsub = Null

Init ==
    /\ InitCommon
    /\ \E reg \in Constructed, setup \in Setups : eventListeners = SubscribeAll(reg, setup)
    /\ subsLeft = 0
    /\ dispLeft = MaxDispatch

----------------------------------------------------------------------------
(* Actions *)

Idle == stack = <<>>

\* dispatch(e, payload) called from outside any handler.
Begin(e, payload, cost) ==
    /\ Idle
    /\ dispLeft >= cost
    /\ dispLeft' = dispLeft - cost
    /\ stack' = PushFrame(stack, Frame(eventListeners, e, payload, 1))
    /\ trace' = <<DispatchEntry(e, payload, 1, 0, 1, Len(Listeners(eventListeners, e)),
                                Listeners(eventListeners, e))>>
    /\ thrown' = FALSE
    /\ onlyAdds' = (onlyAdds /\ e \notin {"product:remove", "basket:update"})
    /\ addCount' = IF ~onlyAdds' THEN [id \in ProductIds |-> 0]
                   ELSE IF e = "product:add"
                   THEN [addCount EXCEPT ![payload.product.id] = @ + 1]
                   ELSE addCount
    /\ lastSub' = Null
    /\ lastUnsub' = IF lastUnsub # Null /\ lastUnsub.fresh THEN lastUnsub ELSE Null
    /\ initSeen' = (initSeen \/ e = "order:init")
    /\ UNCHANGED <<held, eventListeners, basket, orderDetails, contactInfo, finalOrder, views,
                   subsLeft>>

\* A dispatch made by a component other than the views.
StartDispatch(e, payload, cost) == Begin(e, payload, cost) /\ UNCHANGED ui

\* The payloads of basket:update sent by other components.
Snapshots ==
    {<<>>,
     <<IProductCard(P2, 1), IProductCard(P1, 2)>>,
     <<IProductCard(P1, 1), IProductCard(P1, 1)>>}

Dispatch ==
    \/ \E p \in IProduct : StartDispatch("product:add", ProductPayload(p), 1)
    \/ \E p \in IProduct : StartDispatch("product:remove", ProductPayload(p), 1)
    \/ \E items \in Snapshots : StartDispatch("basket:update", ItemsPayload(items), 1)
    \/ \E d \in IOrderDetails : StartDispatch("order:init", DetailsPayload(d), 1)
    \/ \E c \in IContactInfo : StartDispatch("order:submit", ContactPayload(c), 1)

\* forEach invokes the next callback of the running dispatch.
Invoke ==
    /\ ~Idle
    /\ HasNext(Top(stack))
    /\ LET f == Top(stack)
           h == NextCallback(f)
           eff == Callback(h, f.payload)
           called == Append(trace, CallEntry(f.event, h, f.did, Len(stack)))
           advanced == callbackFrames([stack EXCEPT ![Len(stack)].idx = @ + 1],
                                      h, f.event, subsLeft)
       IN /\ held' = heldAfter(h, f.payload, basket, held, Len(stack) > 1)
          /\ eventListeners' = callbackRegistry(h, f.event, eventListeners, subsLeft)
          /\ subsLeft' = IF Subscribes(h, subsLeft) THEN subsLeft - 1 ELSE subsLeft
          /\ basket' = eff.basket
          /\ orderDetails' = eff.orderDetails
          /\ contactInfo' = eff.contactInfo
          /\ finalOrder' = IF h = "submitOrder"
                           THEN formOrder(eff.orderDetails, eff.contactInfo)
                           ELSE finalOrder
          /\ IF eff.throws
             THEN /\ stack' = Unwind(stack)
                  /\ thrown' = TRUE
                  /\ trace' = called
                  /\ UNCHANGED <<addCount, onlyAdds>>
             ELSE IF eff.nested # NoDispatch
             THEN LET d == eff.nested[1]
                      did == Len(called) + 1
                      g == Frame(eventListeners', d.event, d.payload, did)
                  IN /\ stack' = PushFrame(advanced, g)
                     /\ trace' = Append(called,
                                    DispatchEntry(d.event, d.payload, did, Len(called),
                                                  Len(stack) + 1, g.len,
                                                  Listeners(eventListeners', d.event)))
                     /\ thrown' = thrown
                     /\ onlyAdds' = (onlyAdds /\ (d.event # "basket:update"
                                                    \/ h = "addToBasket"))
                     /\ addCount' = IF onlyAdds' THEN addCount
                                    ELSE [id \in ProductIds |-> 0]
             ELSE /\ stack' = advanced
                  /\ trace' = called
                  /\ UNCHANGED <<thrown, addCount, onlyAdds>>
    /\ UNCHANGED <<ui, views, initSeen, lastSub, lastUnsub, dispLeft>>

\* forEach has visited every index: dispatch() returns to its caller.
Return ==
    /\ ~Idle
    /\ ~HasNext(Top(stack))
    /\ stack' = Pop(stack)
    /\ UNCHANGED <<ui, held, eventListeners, basket, orderDetails, contactInfo, finalOrder, views,
                   trace, thrown, addCount, initSeen, onlyAdds, lastSub, lastUnsub,
                   subsLeft, dispLeft>>

Next == Dispatch \/ Invoke \/ Return

Spec == Init /\ [][Next]_vars

----------------------------------------------------------------------------
(* Controller-only runs: the two controllers are the only subscribers and   *)
(* any of the seven events is dispatched.  dispatch() is synchronous, so a  *)
(* dispatch that has begun runs on until forEach has visited every callback *)
(* and every frame has returned: Invoke and Return are weakly fair.         *)

DispatchAny ==
    \/ Dispatch
    \/ \E p \in IProduct : StartDispatch("product:view", ProductPayload(p), 1)
    \/ StartDispatch("modal:close", VoidPayload, 1)

InitCtl ==
    /\ InitCommon
    /\ eventListeners \in Constructed
    /\ subsLeft = 0
    /\ dispLeft = MaxDispatch

NextCtl == DispatchAny \/ Invoke \/ Return

SpecCtl == InitCtl /\ [][NextCtl]_vars /\ WF_vars(Invoke) /\ WF_vars(Return)

----------------------------------------------------------------------------
(* Runs of the bus with other subscribers coming and going *)

BusEvents == {"product:remove", "basket:update", "product:view"}
BusHandlers == {"hLog1", "hView", "hThrow"}

Subscribe(e, h) ==
    /\ Idle
    /\ subsLeft > 0
    /\ MaySubscribe(e, h)
    /\ subsLeft' = subsLeft - 1
    /\ eventListeners' = subscribe(eventListeners, e, h)
    /\ lastSub' = Registration(e, h)
    /\ lastUnsub' = Null
    /\ trace' = <<>>
    /\ thrown' = FALSE
    /\ UNCHANGED <<ui, held, stack, basket, orderDetails, contactInfo, finalOrder, views, addCount,
                   initSeen, onlyAdds, dispLeft>>

Unsubscribe(e, h) ==
    /\ Idle
    /\ eventListeners' = unsubscribe(eventListeners, e, h)
    /\ lastUnsub' = [event |-> e, h |-> h,
                     removed |-> Len(Listeners(eventListeners, e))
                                   - Len(Listeners(eventListeners', e)),
                     fresh |-> lastSub = Registration(e, h)]
    /\ lastSub' = Null
    /\ trace' = <<>>
    /\ thrown' = FALSE
    /\ UNCHANGED <<ui, held, stack, basket, orderDetails, contactInfo, finalOrder, views, addCount,
                   initSeen, onlyAdds, subsLeft, dispLeft>>

\* Top-level dispatches of the bus runs: one payload per event, and only
\* dispatches that leave the basket empty, so that they need no bound.
BusDispatch ==
    \/ StartDispatch("product:remove", ProductPayload(P1), 0)
    \/ StartDispatch("basket:update", ItemsPayload(<<>>), 0)
    \/ StartDispatch("product:view", ProductPayload(P1), 0)

InitBus ==
    /\ InitCommon
    /\ eventListeners \in Constructed
    /\ subsLeft = MaxSubs
    /\ dispLeft = 0

NextBus ==
    \/ \E e \in BusEvents, h \in BusHandlers : Subscribe(e, h)
    \/ \E e \in BusEvents, h \in BusHandlers : Unsubscribe(e, h)
    \/ BusDispatch
    \/ Invoke
    \/ Return

SpecBus == InitBus /\ [][NextBus]_vars

----------------------------------------------------------------------------
(* Runs with subscribers that subscribe and unsubscribe from inside a       *)
(* callback, while the dispatch that invoked them is running.               *)

ReentrantSetups ==
    {<<Registration("basket:update", "hUnsub"), Registration("basket:update", "hLog1"),
       Registration("basket:update", "hSub")>>,
     <<Registration("product:view", "hSub"), Registration("product:view", "hLog1"),
       Registration("product:view", "hUnsub"), Registration("product:view", "hLog1")>>,
     <<Registration("product:remove", "hSub"), Registration("basket:update", "hLog1"),
       Registration("basket:update", "hSub"), Registration("basket:update", "hUnsub")>>}

InitReentrant ==
    /\ InitCommon
    /\ \E reg \in Constructed, setup \in ReentrantSetups :
          eventListeners = SubscribeAll(reg, setup)
    /\ subsLeft = MaxSubs
    /\ dispLeft = 0

NextReentrant == BusDispatch \/ Invoke \/ Return

SpecReentrant == InitReentrant /\ [][NextReentrant]_vars

----------------------------------------------------------------------------
(* Runs with a subscriber of basket:update that keeps the list it received  *)
(* and may later change it.                                                 *)

KeeperSetup == <<Registration("basket:update", "hKeep")>>

\* The subscriber calls pop() on the list it kept.
SubscriberMutates ==
    /\ Idle
    /\ held # Null
    /\ Len(held.items) > 0
    /\ LET n == Len(held.items)
       IN /\ held' = [held EXCEPT !.items = SubSeq(@, 1, n - 1),
                                  !.link = SubSeq(@, 1, n - 1)]
          /\ basket' = IF held.same THEN SubSeq(basket, 1, Len(basket) - 1) ELSE basket
    /\ trace' = <<>>
    /\ UNCHANGED <<eventListeners, stack, orderDetails, contactInfo, finalOrder, views,
                   thrown, addCount, initSeen, onlyAdds, lastSub, lastUnsub, subsLeft,
                   dispLeft, ui>>

DispatchProduct ==
    \/ \E p \in IProduct : StartDispatch("product:add", ProductPayload(p), 1)
    \/ \E p \in IProduct : StartDispatch("product:remove", ProductPayload(p), 1)

InitSnapshot ==
    /\ InitCommon
    /\ \E reg \in Constructed : eventListeners = SubscribeAll(reg, KeeperSetup)
    /\ subsLeft = 0
    /\ dispLeft = MaxDispatch

NextSnapshot == DispatchProduct \/ SubscriberMutates \/ Invoke \/ Return

SpecSnapshot == InitSnapshot /\ [][NextSnapshot]_vars

----------------------------------------------------------------------------
(* Runs of the views *)

Construct(v, initial) ==
    /\ ~views[v].constructed
    /\ ~views[v].failed
    /\ views' = [views EXCEPT ![v] = construct(v, initial)]
    /\ UNCHANGED <<ui, held, eventListeners, stack, basket, orderDetails, contactInfo, finalOrder,
                   trace, thrown, addCount, initSeen, onlyAdds, lastSub, lastUnsub,
                   subsLeft, dispLeft>>

UpdateState(v, newState) ==
    /\ views[v].constructed
    /\ views[v].updates < MaxUpdates
    /\ views' = [views EXCEPT ![v] = updateState(views[v], newState)]
    /\ UNCHANGED <<ui, held, eventListeners, stack, basket, orderDetails, contactInfo, finalOrder,
                   trace, thrown, addCount, initSeen, onlyAdds, lastSub, lastUnsub,
                   subsLeft, dispLeft>>

InitView ==
    /\ InitCommon
    /\ eventListeners \in Constructed
    /\ subsLeft = 0
    /\ dispLeft = 0

NextView ==
    \/ \E v \in ViewKinds : \E initial \in InitialStates(v) \cup {Omitted} :
            Construct(v, initial)
    \/ \E v \in ViewKinds : \E newState \in Partials(v) : UpdateState(v, newState)

SpecView == InitView /\ [][NextView]_vars

----------------------------------------------------------------------------
(* Runs of the page: views are constructed and the user clicks and types.   *)
(* A listener exists only when the bindEvents pass that registers it has    *)
(* completed.                                                               *)

\* A gesture no listener answers, or whose listener throws.
NoAnswer(throws) ==
    /\ trace' = <<>>
    /\ thrown' = throws
    /\ UNCHANGED <<eventListeners, stack, basket, orderDetails, contactInfo, finalOrder,
                   views, addCount, initSeen, onlyAdds, lastSub, lastUnsub, subsLeft,
                   dispLeft, held>>

\* Click on a card outside its button: openModal on the modal view the card
\* was given, then dispatch product:view.  No ModalView instance exists
\* unless its construction has returned one.
ClickCard ==
    /\ Idle
    /\ views["card"].constructed
    /\ LET content == TitleOf(views["card"].state)
       IN IF views["modal"].constructed
          THEN /\ ui' = [ui EXCEPT !.modal = openModal(@, content),
                                   !.requested = content, !.gesture = ""]
               /\ Begin("product:view", ProductPayload(views["card"].state.obj), 0)
          ELSE /\ ui' = [ui EXCEPT !.requested = content, !.gesture = ""]
               /\ NoAnswer(TRUE)

\* Click on the remove button of line i, bound when the view was constructed.
ClickRemove(i) ==
    /\ Idle
    /\ views["basket"].constructed
    /\ i \in 1..Len(ArrayOf(views["basket"].bound))
    /\ LET line == ArrayOf(views["basket"].bound)[i]
           productName == line.product.title
           click == [line |-> i, product |-> line.product]
       IN /\ ui' = [ui EXCEPT !.clicked = click, !.gesture = ""]
          /\ IF ~views["basket"].state.isArray
             THEN NoAnswer(TRUE)
             ELSE LET item == findByTitle(ArrayOf(views["basket"].state), productName)
                  IN IF item = Null THEN NoAnswer(FALSE)
                     ELSE Begin("product:remove", ProductPayload(item.product), 0)

\* Click on a close button, Escape key: closeModal and dispatch modal:close.
CloseGesture(name) ==
    /\ Idle
    /\ IF views["modal"].constructed
       THEN /\ ui' = [ui EXCEPT !.modal = closeModal(@), !.gesture = name]
            /\ Begin("modal:close", VoidPayload, 0)
       ELSE /\ ui' = [ui EXCEPT !.gesture = name]
            /\ NoAnswer(FALSE)

ClickClose == CloseGesture("button")

PressEscape == CloseGesture("escape")

\* Another component dispatches modal:close.
DispatchClose ==
    /\ ui' = [ui EXCEPT !.gesture = "external"]
    /\ Begin("modal:close", VoidPayload, 0)

InitUI ==
    /\ InitCommon
    /\ eventListeners \in Constructed
    /\ subsLeft = 0
    /\ dispLeft = 0

NextUI ==
    \/ \E v \in ViewKinds : \E initial \in InitialStates(v) \cup {Omitted} :
            Construct(v, initial)
    \/ \E newState \in Partials("basket") : UpdateState("basket", newState)
    \/ ClickCard
    \/ \E i \in 1..Len(Keys) : ClickRemove(i)
    \/ ClickClose
    \/ PressEscape
    \/ DispatchClose
    \/ Invoke
    \/ Return

SpecUI == InitUI /\ [][NextUI]_vars

----------------------------------------------------------------------------
(* Properties *)

Indices(seq) == 1..Len(seq)

\* The indices of seq whose element is kept, and the k-th of them.
KeptIndices(seq, Drop(_)) == {i \in Indices(seq) : ~Drop(seq[i])}

NthKept(seq, Drop(_), k) ==
    CHOOSE i \in KeptIndices(seq, Drop) :
        Cardinality({j \in KeptIndices(seq, Drop) : j <= i}) = k

\* new is old without the dropped elements: the kept ones, each once, in
\* their old order.
IsRemoval(old, new, Drop(_)) ==
    /\ Len(new) = Cardinality(KeptIndices(old, Drop))
    /\ \A k \in Indices(new) : new[k] = old[NthKept(old, Drop, k)]

LinesOf(b, id) == {i \in Indices(b) : b[i].product.id = id}

\* The callback the running forEach invokes next.
Pending(h) ==
    /\ stack # <<>>
    /\ HasNext(Top(stack))
    /\ NextCallback(Top(stack)) = h

DispatchesOf(e) == {i \in Indices(trace) : trace[i].kind = "dispatch" /\ trace[i].event = e}
CallsOf(h) == {i \in Indices(trace) : trace[i].kind = "call" /\ trace[i].h = h}

\* C1: starting from the empty basket, when only product:add has been
\* dispatched, the basket has for every id that was added exactly one line,
\* whose itemCount is the number of product:add dispatches for that id, and
\* no line for an id that was not added.
C1_AddsCounted ==
    (Idle /\ onlyAdds) =>
        \A id \in ProductIds :
            IF addCount[id] > 0
            THEN /\ Cardinality(LinesOf(basket, id)) = 1
                 /\ \A i \in LinesOf(basket, id) : basket[i].itemCount = addCount[id]
            ELSE LinesOf(basket, id) = {}

C1_Witness ==
    /\ Idle /\ onlyAdds
    /\ addCount["p1"] = 3 /\ addCount["p2"] = 1
    /\ basket = <<IProductCard(P1b, 3), IProductCard(P2, 1)>>

\* C2: in every reachable state the basket holds at most one line per
\* product id.
C2_OneLinePerProduct ==
    \A i, j \in Indices(basket) :
        basket[i].product.id = basket[j].product.id => i = j

\* C3: the product:remove handler leaves exactly the lines of the other
\* product ids, in their order and with their counts; without a line for the
\* product the basket is unchanged; it does not throw.
C3_RemoveStep ==
    Pending("removeFromBasket") =>
        LET p == Top(stack).payload.product
        IN /\ IsRemoval(basket, basket', LAMBDA item : item.product.id = p.id)
           /\ LinesOf(basket', p.id) = {}
           /\ LinesOf(basket, p.id) = {} => basket' = basket
           /\ ~thrown' /\ stack' # <<>>

C3_RemoveFiltersLine == [][C3_RemoveStep]_vars

C3_Witness ==
    /\ Idle /\ ~thrown
    /\ trace # <<>> /\ trace[1].event = "product:remove"
    /\ trace[1].payload = ProductPayload(P1)
    /\ CallsOf("removeFromBasket") # {}
    /\ basket = <<IProductCard(P2, 1)>>
    /\ dispLeft = MaxDispatch - 2

\* C4: the product:add and product:remove handlers each make exactly one
\* basket:update dispatch, after the mutation, with the basket as payload;
\* p1 added twice gives the payload [(p1, 2)], p1 removed then gives [].
C4_PublishStep ==
    (Pending("addToBasket") \/ Pending("removeFromBasket")) =>
        /\ Len(stack') = Len(stack) + 1
        /\ Top(stack').event = "basket:update"
        /\ Top(stack').payload = ItemsPayload(basket')
        /\ Len(trace') = Len(trace) + 2
        /\ trace'[Len(trace')].kind = "dispatch"
        /\ trace'[Len(trace')].event = "basket:update"
        /\ trace'[Len(trace')].payload = ItemsPayload(basket')
        /\ (/\ Pending("removeFromBasket")
            /\ Top(stack).payload.product.id = "p1"
            /\ Len(basket) = 1 /\ basket[1].product.id = "p1" /\ basket[1].itemCount = 2)
           => Top(stack').payload = ItemsPayload(<<>>)

LastUpdate == trace[CHOOSE i \in DispatchesOf("basket:update") :
                        \A j \in DispatchesOf("basket:update") : j <= i]

C4_OnePerCall ==
    /\ \A i \in CallsOf("addToBasket") \cup CallsOf("removeFromBasket") :
          /\ i < Len(trace)
          /\ trace[i + 1].kind = "dispatch" /\ trace[i + 1].event = "basket:update"
          /\ trace[i + 1].parent = i
    /\ \A i \in DispatchesOf("basket:update") :
          trace[i].parent > 0 =>
              trace[trace[i].parent].h \in {"addToBasket", "removeFromBasket"}
    /\ (/\ Idle /\ onlyAdds /\ addCount["p1"] = 2 /\ addCount["p2"] = 0
        /\ trace # <<>> /\ trace[1].event = "product:add") =>
          /\ DispatchesOf("basket:update") # {}
          /\ LastUpdate.payload.items \in {<<IProductCard(P1, 2)>>, <<IProductCard(P1b, 2)>>}

C4_BasketUpdatePublished == [][C4_PublishStep]_vars /\ []C4_OnePerCall

C4_Witness ==
    /\ Idle
    /\ trace # <<>> /\ trace[1].event = "product:remove"
    /\ trace[1].payload.product.id = "p1"
    /\ DispatchesOf("basket:update") # {}
    /\ LastUpdate.payload = ItemsPayload(<<>>)
    /\ CallsOf("removeFromBasket") # {}
    /\ dispLeft = MaxDispatch - 3

\* The handlers one dispatch() has invoked so far, in time order.
CallsIn(d) ==
    LET cs == SelectSeq(trace, LAMBDA t : t.kind = "call" /\ t.did = d)
    IN [k \in 1..Len(cs) |-> cs[k].h]

IsDispatch(i) == i \in Indices(trace) /\ trace[i].kind = "dispatch"
IsCall(i) == i \in Indices(trace) /\ trace[i].kind = "call"

\* dispatch() number d has returned normally.
Completed(d) == ~thrown /\ \A i \in Indices(stack) : stack[i].did # d

\* C5: one dispatch invokes the handlers registered for its event in
\* subscription order, each as often as it is registered; nested dispatches
\* too.
C5_InOrder ==
    \A d \in Indices(trace) :
        IsDispatch(d) =>
            LET hs == CallsIn(d)
                ls == Listeners(eventListeners, trace[d].event)
            IN /\ Len(hs) <= Len(ls)
               /\ \A k \in 1..Len(hs) : hs[k] = ls[k]
               /\ Completed(d) => Len(hs) = Len(ls)

\* a subscribe call puts the handler behind the ones registered before
C5_SubscribeStep ==
    (subsLeft' # subsLeft) =>
        /\ lastSub' # Null
        /\ Listeners(eventListeners', lastSub'.event)
             = Listeners(eventListeners, lastSub'.event) \o <<lastSub'.h>>
        /\ \A x \in AppEventMap \ {lastSub'.event} :
             Listeners(eventListeners', x) = Listeners(eventListeners, x)

C5_SubscriptionOrder == []C5_InOrder /\ [][C5_SubscribeStep]_vars

C5_Witness ==
    /\ Idle /\ ~thrown
    /\ trace # <<>> /\ trace[1].event = "product:remove"
    /\ Listeners(eventListeners, "basket:update")
         = <<"updateBasket", "hLog1", "hView", "hLog1">>
    /\ \E d \in Indices(trace) :
         IsDispatch(d) /\ trace[d].parent > 0 /\ Len(CallsIn(d)) = 4

\* The call that issued the dispatch an entry belongs to; 0 at top level.
ParentCall(k) ==
    IF trace[k].kind = "dispatch" THEN trace[k].parent ELSE trace[trace[k].did].parent

RECURSIVE Under(_, _)
Under(k, i) ==
    LET p == ParentCall(k) IN p # 0 /\ (p = i \/ Under(p, i))

\* C6: when a handler of a dispatch itself dispatches, every handler of the
\* nested dispatch, and of the dispatches nested in it, has been invoked
\* before the outer dispatch invokes its next handler; the dispatches below
\* the running one all wait inside a handler.
C6_DepthFirst ==
    /\ \A i, j \in Indices(trace) :
          (IsCall(i) /\ IsCall(j) /\ i < j /\ trace[i].did = trace[j].did) =>
              \A m \in Indices(trace) :
                  (IsDispatch(m) /\ Under(m, i)) =>
                      /\ m < j
                      /\ Cardinality({c \in Indices(trace) :
                                        IsCall(c) /\ trace[c].did = m /\ c < j})
                           = trace[m].n
    /\ \A i \in 1..(Len(stack) - 1) :
          /\ stack[i].idx >= 1
          /\ IsCall(trace[stack[i + 1].did].parent)
          /\ trace[trace[stack[i + 1].did].parent].did = stack[i].did

C6_Witness ==
    /\ Idle /\ ~thrown
    /\ \E k \in Indices(trace) : IsCall(k) /\ trace[k].depth = 4
    /\ trace[Len(trace)].depth = 1 /\ trace[Len(trace)].h = "hLog1"
    /\ trace[Len(trace) - 1].depth = 2 /\ trace[Len(trace) - 1].h = "hLog2"

\* C7: after subscribe(e, h) immediately followed by unsubscribe(e, h), h is
\* not registered for e and no dispatch of e invokes it.
C7_SubscribeUnsubscribe ==
    (lastUnsub # Null /\ lastUnsub.fresh) =>
        /\ \A k \in Indices(Listeners(eventListeners, lastUnsub.event)) :
              Listeners(eventListeners, lastUnsub.event)[k] # lastUnsub.h
        /\ \A i \in Indices(trace) :
              ~(IsCall(i) /\ trace[i].event = lastUnsub.event /\ trace[i].h = lastUnsub.h)

C7_Witness ==
    /\ lastUnsub # Null /\ lastUnsub.fresh /\ lastUnsub.removed = 2
    /\ Idle /\ ~thrown
    /\ \E d \in Indices(trace) :
         IsDispatch(d) /\ trace[d].event = lastUnsub.event /\ Len(CallsIn(d)) = 2

\* C8: unsubscribe(e, h) removes every registration of h for e and nothing
\* else; without a registration of h for e the registry is unchanged.
C8_UnsubscribeStep ==
    \A e \in BusEvents, h \in BusHandlers :
        Unsubscribe(e, h) =>
            /\ DOMAIN eventListeners' = DOMAIN eventListeners
            /\ \A x \in DOMAIN eventListeners \ {e} : eventListeners'[x] = eventListeners[x]
            /\ IsRemoval(Listeners(eventListeners, e), Listeners(eventListeners', e),
                         LAMBDA cb : cb = h)
            /\ (\A k \in Indices(Listeners(eventListeners, e)) :
                    Listeners(eventListeners, e)[k] # h) => eventListeners' = eventListeners

C8_UnsubscribeFrame == [][C8_UnsubscribeStep]_vars

C8_Witness ==
    /\ lastUnsub # Null /\ lastUnsub.removed = 2
    /\ Len(Listeners(eventListeners, lastUnsub.event)) = 1
    /\ \E x \in BusEvents \ {lastUnsub.event} :
         \E k \in Indices(Listeners(eventListeners, x)) :
             Listeners(eventListeners, x)[k] = lastUnsub.h

\* C9: a throwing handler ends the dispatch and every enclosing one: no
\* handler is invoked after it, and what the handlers before it did stays.
C9_AfterThrow ==
    thrown =>
        /\ stack = <<>>
        /\ trace # <<>>
        /\ trace[Len(trace)].kind = "call" /\ trace[Len(trace)].h = "hThrow"
        /\ \A i \in CallsOf("addToBasket") :
              LinesOf(basket, trace[trace[i].did].payload.product.id) # {}
        /\ \A i \in CallsOf("removeFromBasket") :
              LinesOf(basket, trace[trace[i].did].payload.product.id) = {}
        /\ \A i \in CallsOf("setOrderDetails") :
              orderDetails = trace[trace[i].did].payload.details

C9_ThrowStep ==
    Pending("hThrow") =>
        /\ thrown' /\ stack' = <<>>
        /\ trace' = Append(trace, CallEntry(Top(stack).event, "hThrow", Top(stack).did,
                                            Len(stack)))
        /\ UNCHANGED <<basket, orderDetails, contactInfo, eventListeners>>

C9_ThrowPropagates == []C9_AfterThrow /\ [][C9_ThrowStep]_vars

C9_Witness ==
    /\ thrown
    /\ trace[1].event = "product:add" /\ trace[1].n = 2
    /\ trace[Len(trace)].depth = 2
    /\ CallsOf("hLog1") = {}
    /\ basket = <<IProductCard(P1, 2)>>

\* C10: updateState(partial) makes one render call, after the state has
\* become the shallow merge: the fields of partial with their new values,
\* the other old fields as they were; it binds no events.
C10_UpdateStep ==
    \A v \in ViewKinds :
        (views'[v].updates # views[v].updates) =>
            LET old == views[v].state.obj
                new == views'[v].state.obj
                partial == views'[v].lastPartial
            IN /\ views'[v].renders = views[v].renders + 1
               /\ views'[v].rendered = views'[v].state
               /\ views'[v].binds = views[v].binds
               /\ DOMAIN new = DOMAIN old \cup DOMAIN partial
               /\ \A k \in DOMAIN partial : new[k] = partial[k]
               /\ \A k \in DOMAIN old \ DOMAIN partial : new[k] = old[k]

C10_UpdateStateRenders == [][C10_UpdateStep]_vars

C10_Witness ==
    /\ views["card"].constructed
    /\ views["card"].updates = 1 /\ views["card"].renders = 2
    /\ views["card"].lastPartial = [k \in {"title"} |-> "B"]
    /\ views["card"].state.obj = [id |-> "p1", title |-> "B"]

\* C11: order:init(d) records d, order:submit(c) records c, and the
\* candidate order formed then has exactly the fields of d and of c, with
\* their values.
C11_OrderSteps ==
    /\ Pending("setOrderDetails") => orderDetails' = Top(stack).payload.details
    /\ orderDetails' # orderDetails => Pending("setOrderDetails")
    /\ (Pending("submitOrder") /\ orderDetails # Null) =>
          LET d == orderDetails
              c == Top(stack).payload.contact
          IN /\ orderDetails' = d
             /\ contactInfo' = c
             /\ finalOrder' = [payment |-> d.payment, address |-> d.address,
                               email |-> c.email, phone |-> c.phone]

C11_AfterInit ==
    (Idle /\ trace # <<>> /\ trace[1].event = "order:init") =>
        orderDetails = trace[1].payload.details

C11_OrderCombined == [][C11_OrderSteps]_vars /\ []C11_AfterInit

C11_Witness ==
    /\ Idle /\ ~thrown
    /\ trace # <<>> /\ trace[1].event = "order:submit"
    /\ orderDetails = [payment |-> "cash", address |-> "Main St"]
    /\ contactInfo = [email |-> "a@b.com", phone |-> "123"]
    /\ finalOrder = [payment |-> "cash", address |-> "Main St",
                     email |-> "a@b.com", phone |-> "123"]

\* C12: order:submit without recorded order details stores the contact,
\* throws nothing and forms no order; a candidate order exists only when an
\* order:init came before the order:submit that formed it.
C12_SubmitStep ==
    (Pending("submitOrder") /\ orderDetails = Null) =>
        /\ contactInfo' = Top(stack).payload.contact
        /\ finalOrder' = Null
        /\ ~thrown' /\ stack' # <<>>

C12_FormedAfterInit == finalOrder # Null => (initSeen /\ orderDetails # Null)

C12_NoOrderBeforeInit == [][C12_SubmitStep]_vars /\ []C12_FormedAfterInit

C12_Witness ==
    /\ Idle /\ ~thrown /\ ~initSeen
    /\ trace # <<>> /\ trace[1].event = "order:submit"
    /\ contactInfo = [email |-> "c@d.com", phone |-> "456"]
    /\ orderDetails = Null /\ finalOrder = Null

\* C15: the catalog controller's basket:update subscription only assigns the
\* payload and dispatches nothing; with the controllers' subscriptions every
\* dispatch terminates and no dispatch nests deeper than two.
C15_UpdateStep ==
    Pending("updateBasket") =>
        /\ basket' = Top(stack).payload.items
        /\ Len(stack') = Len(stack)
        /\ trace' = Append(trace, CallEntry("basket:update", "updateBasket",
                                            Top(stack).did, Len(stack)))

C15_DepthAtMostTwo ==
    /\ Len(stack) <= 2
    /\ \A i \in Indices(trace) : trace[i].depth <= 2

C15_NoFeedback ==
    /\ [][C15_UpdateStep]_vars
    /\ []C15_DepthAtMostTwo
    /\ (~Idle ~> Idle)

C15_Witness ==
    /\ Idle /\ ~thrown
    /\ trace # <<>> /\ trace[1].event = "product:remove"
    /\ \E i \in CallsOf("updateBasket") : trace[i].depth = 2
    /\ basket = <<IProductCard(P2, 1)>>

\* C16: one dispatch invokes the handlers of the event's list as it was when
\* the dispatch began, in that order: a handler subscribed during the
\* dispatch is not invoked by it, a handler unsubscribed during it is still
\* invoked, and a dispatch that begins later sees both changes.
C16_ListAtStart ==
    \A d \in Indices(trace) :
        IsDispatch(d) =>
            LET hs == CallsIn(d)
                ls == trace[d].listeners
            IN /\ Len(hs) <= Len(ls)
               /\ \A k \in 1..Len(hs) : hs[k] = ls[k]
               /\ Completed(d) => Len(hs) = Len(ls)

C16_BeginStep ==
    /\ (Pending("hSub") /\ subsLeft > 0) =>
          Listeners(eventListeners', Top(stack).event)
              = Append(Listeners(eventListeners, Top(stack).event), "hLog2")
    /\ Pending("hUnsub") =>
          Listeners(eventListeners', Top(stack).event)
              = SelectSeq(Listeners(eventListeners, Top(stack).event),
                          LAMBDA cb : cb # "hLog1")
    /\ \A d \in Indices(trace') \ Indices(trace) :
          IsDispatch(d)' =>
              trace'[d].listeners = Listeners(eventListeners', trace'[d].event)
    /\ (Idle /\ ~Idle') =>
          trace'[1].listeners = Listeners(eventListeners, trace'[1].event)

C16_DispatchSnapshot == []C16_ListAtStart /\ [][C16_BeginStep]_vars

C16_Witness ==
    /\ Idle /\ ~thrown
    /\ trace # <<>> /\ trace[1].event = "basket:update"
    /\ trace[1].listeners = <<"updateBasket", "hUnsub", "hLog1", "hSub">>
    /\ CallsIn(1) = <<"updateBasket", "hUnsub", "hLog1", "hSub">>
    /\ Listeners(eventListeners, "basket:update")
          = <<"updateBasket", "hUnsub", "hSub", "hLog2">>

\* C17: the construction of a view, ModalView included, makes one render
\* pass and then one bindEvents pass that both run to completion, so that the
\* constructor returns an instance with its listeners registered; updateState
\* adds render passes only.  (A BasketView built without a list is left out.)
C17_ConstructionCompletes ==
    \A v \in ViewKinds :
        (views[v].renders > 0 /\ ~renderThrows(v, views[v].state)) =>
            /\ views[v].constructed /\ ~views[v].failed
            /\ views[v].binds = 1
            /\ views[v].renders = 1 + views[v].updates

\* C19: the remove button of a basket line dispatches product:remove with
\* the product of that line, also when two lines of distinct products bear
\* the same title.
C19_RemovesClickedLine ==
    (ui.clicked # Null /\ trace # <<>> /\ trace[1].event = "product:remove") =>
        trace[1].payload.product = ui.clicked.product

\* C13: openModal(content) leaves the modal open and showing the content of
\* the latest call; closeModal leaves it closed; it starts closed.
C13_OpenShowsLatest ==
    /\ (ui.requested = "" /\ ui.gesture = "") => ~ui.modal.active
    /\ (ui.requested # "" /\ ui.gesture = "") =>
          (ui.modal.active /\ ui.modal.content = ui.requested)
    /\ ui.gesture \in {"button", "escape"} => ~ui.modal.active

\* C18: a click on a close button and an Escape key press each close the
\* modal and dispatch modal:close exactly once; a modal:close dispatched by
\* another component closes it too.
C18_CloseAffordances ==
    ui.gesture # "" =>
        /\ ~ui.modal.active
        /\ ui.gesture \in {"button", "escape"} =>
              Cardinality(DispatchesOf("modal:close")) = 1

\* C14: the list a subscriber received with basket:update is a read-only
\* snapshot: no later product:add or product:remove handled by the catalog
\* controller changes it, and the subscriber changing it does not change the
\* controller's basket.
C14_SnapshotStep ==
    /\ (held # Null /\ (Pending("addToBasket") \/ Pending("removeFromBasket"))) =>
          held'.items = held.items
    /\ (Idle /\ Idle' /\ held # Null /\ held' # held) => basket' = basket

C14_ReadOnlySnapshot == [][C14_SnapshotStep]_vars

====
